---- MODULE Spec2Model ----
(***************************************************************************)
(* A model of windows_event_automation.py: the MacroRecorder thread and    *)
(* its pynput listener callbacks, the MacroPlayer thread, and the          *)
(* MacroRecorderGUI slots that the Qt event loop runs one at a time from   *)
(* the GUI thread's FIFO event queue.                                      *)
(*                                                                         *)
(* Key symbols are strings, as get_key_name produces them; a resolved key  *)
(* or button is a tagged pair so that get_key / get_button are real        *)
(* conversions.  Time is an integer clock.                                 *)
(***************************************************************************)
EXTENDS Integers, Sequences, FiniteSets, TLC

\* ------------------------------------------------------------------ bounds
\* One player, any log: the longest log and the largest repeat count.
MaxLogLen == 2
MaxRepeat == 2
\* The controller with its recorders: hotkey commands, events per recorder, clock.
RecCommands == 4
RecEvents == 1
RecTime == 1
\* The same under fair scheduling: hotkey commands.
FairCommands == 2
\* The controller with its players: hotkey commands, repeat count.
PlayCommands == 3
PlayRepeat == 2
\* The whole program: hotkey commands, events per recorder, repeat count.
MaxCommands == 4
MaxEvents == 1
MaxSpin == 1
\* One recorder with both listeners: events captured, clock.
CaptureEvents == 2
CaptureTime == 2
\* A session that starts with a committed log: hotkey commands.
SessionCommands == 3
\* A recording during a playback: hotkey commands, events per recorder.
RebindCommands == 2
RebindEvents == 1
\* Closing the window under fair scheduling: hotkey commands.
CloseCommands == 2

\* The value the repeat spin box is created with, line 337.
SpinDefault == 1

VARIABLES
    macro_recorder,     \* MacroRecorderGUI.macro_recorder: a recorder id, 0 for None
    macro_player,       \* MacroRecorderGUI.macro_player: a player id, 0 for None
    recorded_actions,   \* MacroRecorderGUI.recorded_actions: the id of a list object
    lists,              \* list id -> the content of the list the GUI or a player holds
    message_box,        \* the text of the last QMessageBox shown
    closing,            \* the position of the GUI thread in closeEvent
    status_label,       \* text set by update_status
    progress_bar,       \* value of the progress bar
    queue,              \* the GUI thread's event queue: queued signals, in order
    slot_error,         \* an exception has left a slot of the GUI
    presses,            \* hotkey commands issued so far
    recorder,           \* recorder id -> the MacroRecorder object and its thread position
    callback,           \* recorder id -> listener -> the callback that listener is running
    clock,              \* time.time()
    player,             \* player id -> the MacroPlayer object and its thread position
    player_log,         \* player id -> what the player did, in order (log lines, signals)
    os_keys,            \* keys the OS holds down as a result of injection
    os_buttons,         \* buttons the OS holds down as a result of injection
    pointer,            \* the position of the mouse pointer
    synthesized         \* player id -> the input events execute_action has synthesized

vars == <<macro_recorder, macro_player, recorded_actions, lists, message_box,
          closing, status_label, progress_bar, queue, slot_error, presses,
          recorder, callback, clock, player, player_log, os_keys, os_buttons,
          pointer, synthesized>>

gui_vars == <<macro_recorder, macro_player, recorded_actions, lists, message_box,
              closing, status_label, progress_bar, slot_error>>
rec_vars == <<recorder, callback, clock>>
play_vars == <<player, player_log, os_keys, os_buttons, pointer, synthesized>>

\* ------------------------------------------------------------ key mapping
None == <<"None", "">>

\* The members of pynput.keyboard.Key and pynput.mouse.Button that the model uses.
KeyMembers == {"shift", "ctrl"}
ButtonMembers == {"left", "right"}

\* str.lower() on the key names of the model.
lower(s) ==
    CASE s = "Shift" -> "shift"
      [] s = "Ctrl" -> "ctrl"
      [] OTHER -> s

get_key(key_name) ==
    IF Len(key_name) = 1 THEN <<"char", key_name>>
    ELSE IF lower(key_name) \in KeyMembers THEN <<"Key", lower(key_name)>>
    ELSE None

get_button(button_name) ==
    IF button_name \in ButtonMembers THEN <<"Button", button_name>> ELSE None

\* ---------------------------------------------------------------- actions
action_type(action) == action[1]
delta_time(action) == action[Len(action)]

KeyTypes == {"key_down", "key_up"}
MouseTypes == {"mouse_down", "mouse_up"}

\* execute_action without its 'is None' checks: every action reaches a call.
calls_controller_unchecked(action) == TRUE

\* Whether execute_action reaches a call of a pynput controller for this action.
calls_controller(action) ==
    CASE action_type(action) \in KeyTypes -> get_key(action[2]) # None
      [] action_type(action) = "move" -> TRUE
      [] action_type(action) \in MouseTypes -> get_button(action[2]) # None
      [] action_type(action) = "scroll" -> TRUE
      [] OTHER -> FALSE

\* The held sets and the OS state after execute_action(action), no call failing.
execute_action(pl, action, keys, buttons) ==
    CASE action_type(action) \in KeyTypes ->
            LET key == get_key(action[2]) IN
            IF key = None
            THEN [pressed_keys |-> pl.pressed_keys, pressed_buttons |-> pl.pressed_buttons,
                  os_keys |-> keys, os_buttons |-> buttons]
            ELSE IF action_type(action) = "key_down"
            THEN [pressed_keys |-> pl.pressed_keys \cup {key},
                  pressed_buttons |-> pl.pressed_buttons,
                  os_keys |-> keys \cup {key}, os_buttons |-> buttons]
            ELSE [pressed_keys |-> pl.pressed_keys \ {key},
                  pressed_buttons |-> pl.pressed_buttons,
                  os_keys |-> keys \ {key}, os_buttons |-> buttons]
      [] action_type(action) \in MouseTypes ->
            LET button == get_button(action[2]) IN
            IF button = None
            THEN [pressed_keys |-> pl.pressed_keys, pressed_buttons |-> pl.pressed_buttons,
                  os_keys |-> keys, os_buttons |-> buttons]
            ELSE IF action_type(action) = "mouse_down"
            THEN [pressed_keys |-> pl.pressed_keys,
                  pressed_buttons |-> pl.pressed_buttons \cup {button},
                  os_keys |-> keys, os_buttons |-> buttons \cup {button}]
            ELSE [pressed_keys |-> pl.pressed_keys,
                  pressed_buttons |-> pl.pressed_buttons \ {button},
                  os_keys |-> keys, os_buttons |-> buttons \ {button}]
      [] OTHER ->
            [pressed_keys |-> pl.pressed_keys, pressed_buttons |-> pl.pressed_buttons,
             os_keys |-> keys, os_buttons |-> buttons]

\* The input event execute_action synthesizes for the action, none for an
\* unmapped symbol: press and release take the key or button only, so a button
\* event happens where the pointer is; position is set to the recorded x, y.
synthesize(action, position) ==
    CASE action_type(action) \in KeyTypes ->
            IF get_key(action[2]) = None THEN <<>>
            ELSE << <<action_type(action), get_key(action[2])>> >>
      [] action_type(action) = "move" -> << <<"move", action[2], action[3]>> >>
      [] action_type(action) \in MouseTypes ->
            IF get_button(action[2]) = None THEN <<>>
            ELSE << <<action_type(action), get_button(action[2]),
                      position[1], position[2]>> >>
      [] action_type(action) = "scroll" -> << <<"scroll", action[2], action[3]>> >>
      [] OTHER -> <<>>

\* The pointer after execute_action(action): only a move sets it, line 189.
mouse_position(action, position) ==
    IF action_type(action) = "move" THEN <<action[2], action[3]>> ELSE position

\* release_all without its second loop: the buttons are neither released nor cleared.
release_all_keys_only(pl, keys, buttons) ==
    [pressed_keys |-> {}, pressed_buttons |-> pl.pressed_buttons,
     os_keys |-> keys \ pl.pressed_keys, os_buttons |-> buttons]

\* The held sets and the OS state after release_all, no call failing.
release_all(pl, keys, buttons) ==
    [pressed_keys |-> {}, pressed_buttons |-> {},
     os_keys |-> keys \ pl.pressed_keys, os_buttons |-> buttons \ pl.pressed_buttons]

\* ----------------------------------------------------------------- signals
Signal(sig, src, v, s) == [sig |-> sig, src |-> src, v |-> v, s |-> s]
Ev(k, a, v, s) == [k |-> k, a |-> a, v |-> v, s |-> s]

\* ------------------------------------------------------------- MacroPlayer
NoPlayer ==
    [pc |-> "none", actions |-> 0, repeat_count |-> 0, is_playing |-> FALSE,
     pressed_keys |-> {}, pressed_buttons |-> {}, i |-> 0, j |-> 0]

\* MacroPlayer.__init__ followed by QThread.start(); actions is the list object
\* the caller passed, not a copy of it.
MacroPlayer(actions, repeat_count) ==
    [pc |-> "start", actions |-> actions, repeat_count |-> repeat_count,
     is_playing |-> TRUE, pressed_keys |-> {}, pressed_buttons |-> {}, i |-> 0, j |-> 0]

\* QThread.isRunning(): from start() until run has returned or died.
PlayerIsRunning(pl) == pl.pc \notin {"none", "done", "died"}

\* progress_update.emit(i): the 0-based index of the iteration.
progress_value_zero_based(i) == i

\* The value run emits with progress_update, line 154.
progress_value(i) == i + 1

final_status(pl) == IF pl.is_playing THEN "Playback Finished" ELSE "Playback Stopped"

\* run, line 134: the first statement.
PlayerRunStart(p) ==
    /\ player[p].pc = "start"
    /\ player' = [player EXCEPT ![p].pc = "iter", ![p].i = 0]
    /\ queue' = Append(queue, Signal("play_status", p, 0, "Playing Macro"))
    /\ player_log' = [player_log EXCEPT ![p] = Append(@, Ev("status", <<>>, 0, "Playing Macro"))]
    /\ UNCHANGED <<gui_vars, presses, rec_vars, os_keys, os_buttons, pointer, synthesized>>

\* run, lines 140-144: the head of the outer loop and its is_playing check.
PlayerIterCheck(p) ==
    LET pl == player[p] IN
    /\ pl.pc = "iter"
    /\ IF pl.i < pl.repeat_count /\ pl.is_playing
       THEN /\ player' = [player EXCEPT ![p].pc = "action", ![p].j = 1]
            /\ player_log' = [player_log EXCEPT
                                ![p] = Append(@, Ev("iteration", <<>>, pl.i + 1, ""))]
       ELSE /\ player' = [player EXCEPT ![p].pc = "after"]
            /\ UNCHANGED player_log
    /\ UNCHANGED <<gui_vars, presses, rec_vars, queue, os_keys, os_buttons, pointer, synthesized>>

\* run, lines 145-152: the head of the inner loop, its is_playing check, the sleep.
PlayerActionCheck(p) ==
    LET pl == player[p] IN
    /\ pl.pc = "action"
    /\ IF pl.j <= Len(lists[pl.actions]) /\ pl.is_playing
       THEN player' = [player EXCEPT ![p].pc = "exec"]
       ELSE player' = [player EXCEPT ![p].pc = "progress"]
    /\ UNCHANGED <<gui_vars, presses, rec_vars, queue, player_log, os_keys, os_buttons, pointer, synthesized>>

\* run, line 153: execute_action; a failing controller call raises into line 161.
PlayerExec(p, fails) ==
    LET pl == player[p]
        action == lists[pl.actions][pl.j]
        r == execute_action(pl, action, os_keys, os_buttons)
    IN
    /\ pl.pc = "exec"
    /\ fails => calls_controller(action)
    /\ IF fails
       THEN /\ player' = [player EXCEPT ![p].pc = "except"]
            /\ player_log' = [player_log EXCEPT ![p] = Append(@, Ev("failed", action, pl.i + 1, ""))]
            /\ UNCHANGED <<os_keys, os_buttons, pointer, synthesized>>
       ELSE /\ player' = [player EXCEPT ![p].pc = "action", ![p].j = pl.j + 1,
                                        ![p].pressed_keys = r.pressed_keys,
                                        ![p].pressed_buttons = r.pressed_buttons]
            /\ os_keys' = r.os_keys
            /\ os_buttons' = r.os_buttons
            /\ pointer' = mouse_position(action, pointer)
            /\ synthesized' = [synthesized EXCEPT ![p] = @ \o synthesize(action, pointer)]
            /\ player_log' = [player_log EXCEPT
                  ![p] = Append(@, Ev(IF calls_controller(action) THEN "inject" ELSE "skip",
                                      action, pl.i + 1, ""))]
    /\ UNCHANGED <<gui_vars, presses, rec_vars, queue>>

\* run, lines 154-155: progress_update.emit(i + 1), reached when the inner loop ends
\* or breaks.
PlayerProgress(p) ==
    LET pl == player[p] IN
    /\ pl.pc = "progress"
    /\ player' = [player EXCEPT ![p].pc = "iter", ![p].i = pl.i + 1]
    /\ queue' = Append(queue, Signal("play_progress", p, progress_value(pl.i), ""))
    /\ player_log' = [player_log EXCEPT
                        ![p] = Append(@, Ev("progress", <<>>, progress_value(pl.i), ""))]
    /\ UNCHANGED <<gui_vars, presses, rec_vars, os_keys, os_buttons, pointer, synthesized>>

\* run, lines 156-160: the status after the loops.
PlayerAfterLoop(p) ==
    LET pl == player[p] IN
    /\ pl.pc = "after"
    /\ player' = [player EXCEPT ![p].pc = "finally"]
    /\ queue' = Append(queue, Signal("play_status", p, 0, final_status(pl)))
    /\ player_log' = [player_log EXCEPT ![p] = Append(@, Ev("status", <<>>, 0, final_status(pl)))]
    /\ UNCHANGED <<gui_vars, presses, rec_vars, os_keys, os_buttons, pointer, synthesized>>

\* run, lines 161-163: the except clause.
PlayerExcept(p) ==
    /\ player[p].pc = "except"
    /\ player' = [player EXCEPT ![p].pc = "finally"]
    /\ queue' = Append(queue, Signal("play_status", p, 0, "Playback Error"))
    /\ player_log' = [player_log EXCEPT ![p] = Append(@, Ev("status", <<>>, 0, "Playback Error"))]
    /\ UNCHANGED <<gui_vars, presses, rec_vars, os_keys, os_buttons, pointer, synthesized>>

\* run, lines 164-167: release_all, then finished.emit().
PlayerFinally(p) ==
    LET pl == player[p]
        r == release_all(pl, os_keys, os_buttons)
    IN
    /\ pl.pc = "finally"
    /\ player' = [player EXCEPT ![p].pc = "exit",
                                ![p].pressed_keys = r.pressed_keys,
                                ![p].pressed_buttons = r.pressed_buttons]
    /\ os_keys' = r.os_keys
    /\ os_buttons' = r.os_buttons
    /\ queue' = Append(queue, Signal("play_finished", p, 0, ""))
    /\ player_log' = [player_log EXCEPT ![p] = Append(@, Ev("finished", <<>>, 0, ""))]
    /\ UNCHANGED <<gui_vars, presses, rec_vars, pointer, synthesized>>

\* run, lines 164-166: a release call of release_all raises.  The keys (then the
\* buttons) released before it stay released, the sets are not cleared, the
\* exception leaves run and finished is not emitted.
PlayerFinallyFails(p) ==
    LET pl == player[p] IN
    /\ pl.pc = "finally"
    /\ \/ \E k \in pl.pressed_keys : \E done \in SUBSET (pl.pressed_keys \ {k}) :
            /\ os_keys' = os_keys \ done
            /\ os_buttons' = os_buttons
       \/ \E b \in pl.pressed_buttons : \E done \in SUBSET (pl.pressed_buttons \ {b}) :
            /\ os_keys' = os_keys \ pl.pressed_keys
            /\ os_buttons' = os_buttons \ done
    /\ player' = [player EXCEPT ![p].pc = "died"]
    /\ player_log' = [player_log EXCEPT ![p] = Append(@, Ev("died", <<>>, 0, ""))]
    /\ UNCHANGED <<gui_vars, presses, rec_vars, queue, pointer, synthesized>>

\* run returns: the thread is no longer running.
PlayerExit(p) ==
    /\ player[p].pc = "exit"
    /\ player' = [player EXCEPT ![p].pc = "done"]
    /\ UNCHANGED <<gui_vars, presses, rec_vars, queue, player_log, os_keys, os_buttons, pointer, synthesized>>

\* stop_playback, lines 169-170.
stop_playback(p) ==
    /\ player' = [player EXCEPT ![p].is_playing = FALSE]
    /\ player_log' = [player_log EXCEPT ![p] = Append(@, Ev("stop_playback", <<>>, 0, ""))]

\* ----------------------------------------------------------- MacroRecorder
Listeners == {"keyboard", "mouse"}

NoCallback == [pc |-> "idle", ev |-> <<>>, current_time |-> 0, delta |-> 0]

\* stopped and committed are history fields: stop() has been called on the
\* recorder; on_recording_finished has handled this recorder's finished signal
\* and stored this recorder's actions.
NoRecorder ==
    [pc |-> "none", recording |-> FALSE, actions |-> <<>>, start_time |-> -1,
     last_action_time |-> -1, stopped |-> FALSE, committed |-> FALSE]

\* MacroRecorder.__init__ followed by QThread.start().
MacroRecorder == [NoRecorder EXCEPT !.pc = "start"]

\* QThread.isRunning(): from start() until run has returned.
RecorderIsRunning(rc) == rc.pc \notin {"none", "done"}

\* The listeners deliver callbacks from the entry of the with block to its exit.
ListenerActive(rc) == rc.pc \in {"loop", "finally", "exit"}

\* stop, lines 62-63.
stop(rc) == [rc EXCEPT !.recording = FALSE, !.stopped = TRUE]

\* get_key_name, lines 113-118: key.char of a KeyCode, str(key) without its
\* 'Key.' prefix for a Key member, 'None' for the unknown key pynput reports as None.
get_key_name(key) ==
    CASE key[1] = "KeyCode" -> key[2]
      [] key[1] = "Key" -> key[2]
      [] OTHER -> "None"

\* The tuple a callback appends for the event it was called with.
recorded_action(ev, delta) ==
    CASE ev[1] = "press" -> <<"key_down", get_key_name(ev[2]), delta>>
      [] ev[1] = "release" -> <<"key_up", get_key_name(ev[2]), delta>>
      [] ev[1] = "move" -> <<"move", ev[2], ev[3], delta>>
      [] ev[1] = "click" ->
            <<IF ev[5] THEN "mouse_down" ELSE "mouse_up", ev[4], ev[2], ev[3], delta>>
      [] ev[1] = "scroll" -> <<"scroll", ev[4], ev[5], delta>>

\* run, lines 34-38.
RecorderRunStart(r) ==
    /\ recorder[r].pc = "start"
    /\ recorder' = [recorder EXCEPT ![r].pc = "listen", ![r].recording = TRUE,
                                    ![r].start_time = clock,
                                    ![r].last_action_time = clock]
    /\ queue' = Append(queue, Signal("rec_status", r, 0, "Recording Started"))
    /\ UNCHANGED <<gui_vars, presses, callback, clock, play_vars>>

\* run, lines 41-49: both listeners are started.
RecorderListen(r) ==
    /\ recorder[r].pc = "listen"
    /\ recorder' = [recorder EXCEPT ![r].pc = "loop"]
    /\ UNCHANGED <<gui_vars, presses, queue, callback, clock, play_vars>>

\* run, lines 51-52: the loop is left once recording is false; while it is true
\* the thread sleeps and changes nothing.
RecorderLoop(r) ==
    /\ recorder[r].pc = "loop"
    /\ ~recorder[r].recording
    /\ recorder' = [recorder EXCEPT ![r].pc = "finally"]
    /\ UNCHANGED <<gui_vars, presses, queue, callback, clock, play_vars>>

\* run, lines 56-60: the finally clause.
RecorderFinally(r) ==
    /\ recorder[r].pc = "finally"
    /\ recorder' = [recorder EXCEPT ![r].pc = "exit", ![r].recording = FALSE]
    /\ queue' = queue \o << Signal("rec_status", r, 0, "Recording Finished"),
                            Signal("rec_finished", r, 0, "") >>
    /\ UNCHANGED <<gui_vars, presses, callback, clock, play_vars>>

\* The with block is left (the listeners are stopped) and run returns.
RecorderExit(r) ==
    /\ recorder[r].pc = "exit"
    /\ recorder' = [recorder EXCEPT ![r].pc = "done"]
    /\ UNCHANGED <<gui_vars, presses, queue, callback, clock, play_vars>>

\* The actions recorder r holds or is about to append.
Captured(r) ==
    Len(recorder[r].actions)
        + Cardinality({l \in Listeners : callback[r][l].pc # "idle"})

\* on_key_press .. on_mouse_scroll, first two statements: the recording gate and
\* the reading of the clock.  A callback that finds recording false returns.
CallbackGate(r, l, ev, maxEvents) ==
    /\ ListenerActive(recorder[r])
    /\ callback[r][l].pc = "idle"
    /\ recorder[r].recording
    /\ Captured(r) < maxEvents
    /\ callback' = [callback EXCEPT ![r][l] =
                        [pc |-> "timed", ev |-> ev, current_time |-> clock, delta |-> 0]]
    /\ UNCHANGED <<gui_vars, presses, queue, recorder, clock, play_vars>>

\* delta = current_time - self.last_action_time
CallbackDelta(r, l) ==
    /\ callback[r][l].pc = "timed"
    /\ callback' = [callback EXCEPT
                      ![r][l].pc = "delta",
                      ![r][l].delta = callback[r][l].current_time
                                        - recorder[r].last_action_time]
    /\ UNCHANGED <<gui_vars, presses, queue, recorder, clock, play_vars>>

\* self.last_action_time = current_time
CallbackStamp(r, l) ==
    /\ callback[r][l].pc = "delta"
    /\ callback' = [callback EXCEPT ![r][l].pc = "stamped"]
    /\ recorder' = [recorder EXCEPT ![r].last_action_time = callback[r][l].current_time]
    /\ UNCHANGED <<gui_vars, presses, queue, clock, play_vars>>

\* self.actions.append(...)
CallbackAppend(r, l) ==
    /\ callback[r][l].pc = "stamped"
    /\ recorder' = [recorder EXCEPT ![r].actions =
                        Append(@, recorded_action(callback[r][l].ev, callback[r][l].delta))]
    /\ callback' = [callback EXCEPT ![r][l] = NoCallback]
    /\ UNCHANGED <<gui_vars, presses, queue, clock, play_vars>>

\* time.time() advances.
Tick(maxTime) ==
    /\ clock < maxTime
    /\ clock' = clock + 1
    /\ UNCHANGED <<gui_vars, presses, queue, recorder, callback, play_vars>>

\* --------------------------------------------------------- MacroRecorderGUI
\* A hotkey is pressed: HotkeyListener emits the command's signal, which is
\* queued to the GUI thread.  closeEvent stops the hotkey listener.
Hotkey(cmd, maxCommands) ==
    /\ closing # "closed"
    /\ presses < maxCommands
    /\ presses' = presses + 1
    /\ queue' = Append(queue, Signal("cmd", 0, 0, cmd))
    /\ UNCHANGED <<gui_vars, rec_vars, play_vars>>

\* The event the GUI thread handles next.  It handles none while it is inside
\* closeEvent or after it.
GuiHandles(sig, s) ==
    /\ closing \in {"no", "requested"}
    /\ queue # <<>>
    /\ Head(queue).sig = sig
    /\ Head(queue).s = s

FreshRecorder ==
    CHOOSE r \in DOMAIN recorder :
        recorder[r].pc = "none" /\ \A q \in 1..(r - 1) : recorder[q].pc # "none"

FreshPlayer ==
    CHOOSE p \in DOMAIN player :
        player[p].pc = "none" /\ \A q \in 1..(p - 1) : player[q].pc # "none"

\* The admission check of start_recording, line 360.
start_recording_rejected ==
    macro_recorder # 0 /\ RecorderIsRunning(recorder[macro_recorder])

\* start_recording, lines 359-374.
GuiStartRecording ==
    /\ GuiHandles("cmd", "start_recording")
    /\ queue' = Tail(queue)
    /\ IF start_recording_rejected
       THEN /\ message_box' = "Recording is already in progress."
            /\ UNCHANGED <<macro_recorder, status_label, recorder>>
       ELSE /\ recorder' =
                 [(IF macro_recorder # 0
                   THEN [recorder EXCEPT ![macro_recorder] = stop(@)]
                   ELSE recorder)
                  EXCEPT ![FreshRecorder] = MacroRecorder]
            /\ macro_recorder' = FreshRecorder
            /\ status_label' = "Recording Started"
            /\ UNCHANGED message_box
    /\ UNCHANGED <<macro_player, recorded_actions, lists, closing, progress_bar,
                   slot_error, presses, callback, clock, play_vars>>

\* The admission check of stop_recording, line 377.
stop_recording_rejected ==
    macro_recorder = 0 \/ ~RecorderIsRunning(recorder[macro_recorder])

\* stop_recording, lines 376-383.
GuiStopRecording ==
    /\ GuiHandles("cmd", "stop_recording")
    /\ queue' = Tail(queue)
    /\ IF stop_recording_rejected
       THEN /\ message_box' = "No recording is in progress."
            /\ UNCHANGED <<status_label, recorder>>
       ELSE /\ recorder' = [recorder EXCEPT ![macro_recorder] = stop(@)]
            /\ status_label' = "Stopping Recording..."
            /\ UNCHANGED message_box
    /\ UNCHANGED <<macro_recorder, macro_player, recorded_actions, lists, closing,
                   progress_bar, slot_error, presses, callback, clock, play_vars>>

\* The log on_recording_finished stores, line 387.
committed_log == recorder[macro_recorder].actions

\* The actions are written into the list recorded_actions already refers to.
committed_list_in_place == recorded_actions

\* The list object that .copy() creates on line 387: a new one for each
\* recorder whose actions are copied.
committed_list == macro_recorder

\* on_recording_finished, lines 385-389.  With macro_recorder None, line 387
\* raises after the status was set.
GuiRecordingFinished ==
    /\ GuiHandles("rec_finished", "")
    /\ queue' = Tail(queue)
    /\ status_label' = "Recording Finished"
    /\ IF macro_recorder = 0
       THEN /\ slot_error' = TRUE
            /\ UNCHANGED <<macro_recorder, recorded_actions, lists, recorder>>
       ELSE /\ recorded_actions' = committed_list
            /\ lists' = [lists EXCEPT ![committed_list] = committed_log]
            /\ macro_recorder' = 0
            /\ recorder' = [recorder EXCEPT ![Head(queue).src].committed =
                                @ \/ macro_recorder = Head(queue).src]
            /\ UNCHANGED slot_error
    /\ UNCHANGED <<macro_player, message_box, closing, progress_bar, presses,
                   callback, clock, play_vars>>

\* The checks without the one for an empty log.
play_macro_rejected_when_running ==
    macro_player # 0 /\ PlayerIsRunning(player[macro_player])

\* The admission checks of play_macro, lines 392 and 396.
play_macro_rejected ==
    \/ lists[recorded_actions] = <<>>
    \/ macro_player # 0 /\ PlayerIsRunning(player[macro_player])

\* play_macro, lines 391-409; the repeat count is the value of the spin box.
GuiPlayMacro(maxRepeat) ==
    /\ GuiHandles("cmd", "play_macro")
    /\ queue' = Tail(queue)
    /\ IF play_macro_rejected
       THEN /\ message_box' = IF lists[recorded_actions] = <<>>
                              THEN "No recorded actions to play."
                              ELSE "Playback is already in progress."
            /\ UNCHANGED <<macro_player, status_label, progress_bar, player>>
       ELSE /\ \E repeat_count \in 1..maxRepeat :
                 player' = [player EXCEPT
                              ![FreshPlayer] = MacroPlayer(recorded_actions, repeat_count)]
            /\ macro_player' = FreshPlayer
            /\ progress_bar' = 0
            /\ status_label' = "Playback Started"
            /\ UNCHANGED message_box
    /\ UNCHANGED <<macro_recorder, recorded_actions, lists, closing, slot_error,
                   presses, rec_vars, player_log, os_keys, os_buttons, pointer,
                   synthesized>>

\* The check without its isRunning() part.
stop_macro_rejected_when_none == macro_player = 0

\* The admission check of stop_macro, line 412.
stop_macro_rejected ==
    macro_player = 0 \/ ~PlayerIsRunning(player[macro_player])

\* stop_macro, lines 411-418.
GuiStopMacro ==
    /\ GuiHandles("cmd", "stop_macro")
    /\ queue' = Tail(queue)
    /\ IF stop_macro_rejected
       THEN /\ message_box' = "No playback is in progress."
            /\ UNCHANGED <<status_label, player, player_log>>
       ELSE /\ stop_playback(macro_player)
            /\ status_label' = "Stopping Playback..."
            /\ UNCHANGED message_box
    /\ UNCHANGED <<macro_recorder, macro_player, recorded_actions, lists, closing,
                   progress_bar, slot_error, presses, rec_vars, os_keys, os_buttons,
                   pointer, synthesized>>

\* The status on_playback_finished shows, line 421.
playback_finished_status == "Playback Finished"

\* on_playback_finished, lines 420-424.
GuiPlaybackFinished ==
    /\ GuiHandles("play_finished", "")
    /\ queue' = Tail(queue)
    /\ status_label' = playback_finished_status
    /\ progress_bar' = 0
    /\ macro_player' = 0
    /\ UNCHANGED <<macro_recorder, recorded_actions, lists, message_box, closing,
                   slot_error, presses, rec_vars, play_vars>>

\* update_progress, lines 426-428, called with a queued progress_update.
GuiUpdateProgress ==
    /\ GuiHandles("play_progress", "")
    /\ queue' = Tail(queue)
    /\ progress_bar' = Head(queue).v
    /\ UNCHANGED <<macro_recorder, macro_player, recorded_actions, lists, message_box,
                   closing, status_label, slot_error, presses, rec_vars, play_vars>>

\* update_status, lines 430-432, called with a queued status_update.
GuiUpdateStatus ==
    /\ \E sig \in {"rec_status", "play_status"} : GuiHandles(sig, Head(queue).s)
    /\ queue' = Tail(queue)
    /\ status_label' = Head(queue).s
    /\ UNCHANGED <<macro_recorder, macro_player, recorded_actions, lists, message_box,
                   closing, progress_bar, slot_error, presses, rec_vars, play_vars>>

\* The user closes the window: a close event is pending for the GUI thread.
CloseWindow ==
    /\ closing = "no"
    /\ closing' = "requested"
    /\ UNCHANGED <<macro_recorder, macro_player, recorded_actions, lists, message_box,
                   status_label, progress_bar, slot_error, presses, queue, rec_vars,
                   play_vars>>

\* closeEvent, lines 441-448: the player is stopped and waited for, or there is
\* none running and the event is accepted.
close_player ==
    IF macro_player # 0 /\ PlayerIsRunning(player[macro_player])
    THEN /\ stop_playback(macro_player)
         /\ closing' = "wait_player"
    ELSE /\ closing' = "closed"
         /\ UNCHANGED <<player, player_log>>

\* closeEvent, lines 434-438: from its entry to the first wait() that blocks.
GuiCloseEvent ==
    /\ closing = "requested"
    /\ IF macro_recorder # 0 /\ RecorderIsRunning(recorder[macro_recorder])
       THEN /\ recorder' = [recorder EXCEPT ![macro_recorder] = stop(@)]
            /\ closing' = "wait_recorder"
            /\ UNCHANGED <<player, player_log>>
       ELSE /\ close_player
            /\ UNCHANGED recorder
    /\ UNCHANGED <<macro_recorder, macro_player, recorded_actions, lists, message_box,
                   status_label, progress_bar, slot_error, presses, queue, callback,
                   clock, os_keys, os_buttons, pointer, synthesized>>

\* closeEvent, line 439: macro_recorder.wait() returns once the recorder thread
\* has ended, and closeEvent goes on with the player.
GuiCloseRecorderWaited ==
    /\ closing = "wait_recorder"
    /\ ~RecorderIsRunning(recorder[macro_recorder])
    /\ close_player
    /\ UNCHANGED <<macro_recorder, macro_player, recorded_actions, lists, message_box,
                   status_label, progress_bar, slot_error, presses, queue, rec_vars,
                   os_keys, os_buttons, pointer, synthesized>>

\* closeEvent, line 443: macro_player.wait() returns once the player thread has
\* ended, and the event is accepted.
GuiClosePlayerWaited ==
    /\ closing = "wait_player"
    /\ ~PlayerIsRunning(player[macro_player])
    /\ closing' = "closed"
    /\ UNCHANGED <<macro_recorder, macro_player, recorded_actions, lists, message_box,
                   status_label, progress_bar, slot_error, presses, queue, rec_vars,
                   play_vars>>

\* ------------------------------------------------ one player, any log
\* The actions a log is drawn from.
ActionPool ==
    { <<"key_down", "a", 0>>, <<"key_up", "a", 1>>, <<"key_down", "Shift", 0>>,
      <<"key_down", "Foobar", 0>>, <<"mouse_down", "Foobar", 1, 1, 0>>,
      <<"mouse_down", "left", 1, 1, 0>>,
      <<"mouse_up", "left", 1, 1, 1>>, <<"move", 1, 1, 0>>, <<"scroll", 0, 1, 0>> }

Logs == UNION { [1..n -> ActionPool] : n \in 1..MaxLogLen }

\* Where the pointer may be when a playback starts.
Positions == { <<0, 0>>, <<1, 1>> }

\* A call of stop_playback from another thread, at any point from construction on.
StopPlaybackCall(p) ==
    /\ player[p].pc # "none"
    /\ player[p].is_playing
    /\ stop_playback(p)
    /\ UNCHANGED <<gui_vars, presses, rec_vars, queue, os_keys, os_buttons, pointer, synthesized>>

InitPlayer ==
    /\ macro_recorder = 0
    /\ recorded_actions = 0
    /\ lists \in [{0} -> Logs]
    /\ \E n \in 1..MaxRepeat : player = [p \in {1} |-> MacroPlayer(0, n)]
    /\ macro_player = 1
    /\ message_box = ""
    /\ closing = "no"
    /\ pointer \in Positions
    /\ synthesized = [p \in {1} |-> <<>>]
    /\ status_label = "Playback Started"
    /\ progress_bar = 0
    /\ queue = <<>>
    /\ slot_error = FALSE
    /\ presses = 0
    /\ recorder = <<>>
    /\ callback = <<>>
    /\ clock = 0
    /\ player_log = [p \in {1} |-> <<>>]
    /\ os_keys = {}
    /\ os_buttons = {}

NextPlayer ==
    \/ PlayerRunStart(1)
    \/ PlayerIterCheck(1)
    \/ PlayerActionCheck(1)
    \/ \E fails \in BOOLEAN : PlayerExec(1, fails)
    \/ PlayerProgress(1)
    \/ PlayerAfterLoop(1)
    \/ PlayerExcept(1)
    \/ PlayerFinally(1)
    \/ PlayerFinallyFails(1)
    \/ PlayerExit(1)
    \/ StopPlaybackCall(1)

SpecPlayer == InitPlayer /\ [][NextPlayer]_vars

\* ------------------------------------------------------- the whole program
\* The state after MacroRecorderGUI.__init__, with room for n recorders and m players.
InitWith(n, m) ==
    /\ macro_recorder = 0
    /\ macro_player = 0
    /\ recorded_actions = 0
    /\ lists = [id \in 0..n |-> <<>>]
    /\ message_box = ""
    /\ closing = "no"
    /\ pointer = <<0, 0>>
    /\ synthesized = [p \in 1..m |-> <<>>]
    /\ status_label = "Ready"
    /\ progress_bar = 0
    /\ queue = <<>>
    /\ slot_error = FALSE
    /\ presses = 0
    /\ recorder = [r \in 1..n |-> NoRecorder]
    /\ callback = [r \in 1..n |-> [l \in Listeners |-> NoCallback]]
    /\ clock = 0
    /\ player = [p \in 1..m |-> NoPlayer]
    /\ player_log = [p \in 1..m |-> <<>>]
    /\ os_keys = {}
    /\ os_buttons = {}

KeyboardEvents == { <<"press", <<"KeyCode", "a">>>> }

Commands == {"start_recording", "stop_recording", "play_macro", "stop_macro"}

Init == InitWith(MaxCommands, MaxCommands)

Next ==
    \/ \E cmd \in Commands : Hotkey(cmd, MaxCommands)
    \/ GuiStartRecording
    \/ GuiStopRecording
    \/ GuiRecordingFinished
    \/ GuiPlayMacro(MaxSpin)
    \/ GuiStopMacro
    \/ GuiPlaybackFinished
    \/ GuiUpdateProgress
    \/ GuiUpdateStatus
    \/ \E r \in DOMAIN recorder : RecorderRunStart(r)
    \/ \E r \in DOMAIN recorder : RecorderListen(r)
    \/ \E r \in DOMAIN recorder : RecorderLoop(r)
    \/ \E r \in DOMAIN recorder : RecorderFinally(r)
    \/ \E r \in DOMAIN recorder : RecorderExit(r)
    \/ \E r \in DOMAIN recorder : \E ev \in KeyboardEvents :
          CallbackGate(r, "keyboard", ev, MaxEvents)
    \/ \E r \in DOMAIN recorder : CallbackDelta(r, "keyboard")
    \/ \E r \in DOMAIN recorder : CallbackStamp(r, "keyboard")
    \/ \E r \in DOMAIN recorder : CallbackAppend(r, "keyboard")
    \/ \E p \in DOMAIN player : PlayerRunStart(p)
    \/ \E p \in DOMAIN player : PlayerIterCheck(p)
    \/ \E p \in DOMAIN player : PlayerActionCheck(p)
    \/ \E p \in DOMAIN player : PlayerExec(p, FALSE)
    \/ \E p \in DOMAIN player : PlayerProgress(p)
    \/ \E p \in DOMAIN player : PlayerAfterLoop(p)
    \/ \E p \in DOMAIN player : PlayerFinally(p)
    \/ \E p \in DOMAIN player : PlayerExit(p)

Spec == Init /\ [][Next]_vars

\* ------------------------------------------- the controller and its recorders
NextRecorders(maxCommands) ==
    \/ \E cmd \in {"start_recording", "stop_recording"} : Hotkey(cmd, maxCommands)
    \/ GuiStartRecording
    \/ GuiStopRecording
    \/ GuiRecordingFinished
    \/ GuiUpdateStatus
    \/ Tick(RecTime)
    \/ \E r \in DOMAIN recorder : RecorderRunStart(r)
    \/ \E r \in DOMAIN recorder : RecorderListen(r)
    \/ \E r \in DOMAIN recorder : RecorderLoop(r)
    \/ \E r \in DOMAIN recorder : RecorderFinally(r)
    \/ \E r \in DOMAIN recorder : RecorderExit(r)
    \/ \E r \in DOMAIN recorder : \E ev \in KeyboardEvents :
          CallbackGate(r, "keyboard", ev, RecEvents)
    \/ \E r \in DOMAIN recorder : CallbackDelta(r, "keyboard")
    \/ \E r \in DOMAIN recorder : CallbackStamp(r, "keyboard")
    \/ \E r \in DOMAIN recorder : CallbackAppend(r, "keyboard")

InitRecording == InitWith(RecCommands, 0)

NextRecording == NextRecorders(RecCommands)

SpecRecording == InitRecording /\ [][NextRecording]_vars

\* The same with the scheduling the program runs under: the Qt event loop
\* handles every queued event, and every thread that can take a step takes it.
\* Nothing makes the user press a hotkey or a key.
InitFairRecording == InitWith(FairCommands, 0)

NextFairRecording == NextRecorders(FairCommands)

FairSpecRecording ==
    /\ InitFairRecording
    /\ [][NextFairRecording]_vars
    /\ WF_vars(GuiStartRecording)
    /\ WF_vars(GuiStopRecording)
    /\ WF_vars(GuiRecordingFinished)
    /\ WF_vars(GuiUpdateStatus)
    /\ \A r \in 1..FairCommands :
          /\ WF_vars(RecorderRunStart(r))
          /\ WF_vars(RecorderListen(r))
          /\ WF_vars(RecorderLoop(r))
          /\ WF_vars(RecorderFinally(r))
          /\ WF_vars(RecorderExit(r))
          /\ WF_vars(CallbackDelta(r, "keyboard"))
          /\ WF_vars(CallbackStamp(r, "keyboard"))
          /\ WF_vars(CallbackAppend(r, "keyboard"))

\* --------------------------------------------- the controller and its players
\* The state after a recording session has been committed.
PlaybackLogs ==
    { log \in Logs :
        \A x \in DOMAIN log : log[x] \in {<<"key_down", "a", 0>>, <<"key_up", "a", 1>>} }

InitPlayback ==
    /\ macro_recorder = 0
    /\ macro_player = 0
    /\ recorded_actions = 0
    /\ lists \in [{0} -> PlaybackLogs]
    /\ message_box = ""
    /\ closing = "no"
    /\ pointer = <<0, 0>>
    /\ synthesized = [p \in 1..PlayCommands |-> <<>>]
    /\ status_label = "Recording Finished"
    /\ progress_bar = 0
    /\ queue = <<>>
    /\ slot_error = FALSE
    /\ presses = 0
    /\ recorder = <<>>
    /\ callback = <<>>
    /\ clock = 0
    /\ player = [p \in 1..PlayCommands |-> NoPlayer]
    /\ player_log = [p \in 1..PlayCommands |-> <<>>]
    /\ os_keys = {}
    /\ os_buttons = {}

NextPlayback ==
    \/ \E cmd \in {"play_macro", "stop_macro"} : Hotkey(cmd, PlayCommands)
    \/ GuiPlayMacro(PlayRepeat)
    \/ GuiStopMacro
    \/ GuiPlaybackFinished
    \/ GuiUpdateProgress
    \/ GuiUpdateStatus
    \/ \E p \in DOMAIN player : PlayerRunStart(p)
    \/ \E p \in DOMAIN player : PlayerIterCheck(p)
    \/ \E p \in DOMAIN player : PlayerActionCheck(p)
    \/ \E p \in DOMAIN player : PlayerExec(p, FALSE)
    \/ \E p \in DOMAIN player : PlayerProgress(p)
    \/ \E p \in DOMAIN player : PlayerAfterLoop(p)
    \/ \E p \in DOMAIN player : PlayerFinally(p)
    \/ \E p \in DOMAIN player : PlayerExit(p)

SpecPlayback == InitPlayback /\ [][NextPlayback]_vars

\* ------------------------------------------- one recorder, both listeners
MouseEvents == { <<"click", 1, 1, "left", TRUE>>, <<"move", 1, 1>> }

\* A call of stop() from the GUI thread, at any point from construction on.
StopCall(r) ==
    /\ recorder[r].pc # "none"
    /\ ~recorder[r].stopped
    /\ recorder' = [recorder EXCEPT ![r] = stop(@)]
    /\ UNCHANGED <<gui_vars, presses, queue, callback, clock, play_vars>>

\* The state after start_recording has created and started the first recorder.
InitCapture ==
    /\ macro_recorder = 1
    /\ macro_player = 0
    /\ recorded_actions = 0
    /\ lists = [id \in 0..1 |-> <<>>]
    /\ message_box = ""
    /\ closing = "no"
    /\ status_label = "Recording Started"
    /\ progress_bar = 0
    /\ queue = <<>>
    /\ slot_error = FALSE
    /\ presses = 0
    /\ recorder = [r \in {1} |-> MacroRecorder]
    /\ callback = [r \in {1} |-> [l \in Listeners |-> NoCallback]]
    /\ clock = 0
    /\ player = <<>>
    /\ player_log = <<>>
    /\ os_keys = {}
    /\ os_buttons = {}
    /\ pointer = <<0, 0>>
    /\ synthesized = <<>>

NextCapture ==
    \/ RecorderRunStart(1)
    \/ RecorderListen(1)
    \/ RecorderLoop(1)
    \/ RecorderFinally(1)
    \/ RecorderExit(1)
    \/ StopCall(1)
    \/ \E ev \in KeyboardEvents : CallbackGate(1, "keyboard", ev, CaptureEvents)
    \/ \E ev \in MouseEvents : CallbackGate(1, "mouse", ev, CaptureEvents)
    \/ \E l \in Listeners : CallbackDelta(1, l)
    \/ \E l \in Listeners : CallbackStamp(1, l)
    \/ \E l \in Listeners : CallbackAppend(1, l)
    \/ Tick(CaptureTime)

SpecCapture == InitCapture /\ [][NextCapture]_vars

\* ------------------------------- a session that starts with a committed log
\* The log an earlier recording left in recorded_actions.
SessionLog == << <<"key_down", "a", 0>>, <<"key_up", "a", 1>> >>

\* The state after a recording has been committed, with room for n recorders
\* and n players; list 0 is the committed copy.
InitSessionWith(n) ==
    /\ macro_recorder = 0
    /\ macro_player = 0
    /\ recorded_actions = 0
    /\ lists = [id \in 0..n |-> IF id = 0 THEN SessionLog ELSE <<>>]
    /\ message_box = ""
    /\ closing = "no"
    /\ status_label = "Recording Finished"
    /\ progress_bar = 0
    /\ queue = <<>>
    /\ slot_error = FALSE
    /\ presses = 0
    /\ recorder = [r \in 1..n |-> NoRecorder]
    /\ callback = [r \in 1..n |-> [l \in Listeners |-> NoCallback]]
    /\ clock = 0
    /\ player = [p \in 1..n |-> NoPlayer]
    /\ player_log = [p \in 1..n |-> <<>>]
    /\ os_keys = {}
    /\ os_buttons = {}
    /\ pointer = <<0, 0>>
    /\ synthesized = [p \in 1..n |-> <<>>]

InitSession == InitSessionWith(SessionCommands)

NextSession ==
    \/ \E cmd \in Commands : Hotkey(cmd, SessionCommands)
    \/ GuiStartRecording
    \/ GuiStopRecording
    \/ GuiRecordingFinished
    \/ GuiPlayMacro(SpinDefault)
    \/ GuiStopMacro
    \/ GuiPlaybackFinished
    \/ GuiUpdateProgress
    \/ GuiUpdateStatus
    \/ \E r \in DOMAIN recorder : RecorderRunStart(r)
    \/ \E r \in DOMAIN recorder : RecorderListen(r)
    \/ \E r \in DOMAIN recorder : RecorderLoop(r)
    \/ \E r \in DOMAIN recorder : RecorderFinally(r)
    \/ \E r \in DOMAIN recorder : RecorderExit(r)
    \/ \E p \in DOMAIN player : PlayerRunStart(p)
    \/ \E p \in DOMAIN player : PlayerIterCheck(p)
    \/ \E p \in DOMAIN player : PlayerActionCheck(p)
    \/ \E p \in DOMAIN player : PlayerExec(p, FALSE)
    \/ \E p \in DOMAIN player : PlayerProgress(p)
    \/ \E p \in DOMAIN player : PlayerAfterLoop(p)
    \/ \E p \in DOMAIN player : PlayerFinally(p)
    \/ \E p \in DOMAIN player : PlayerExit(p)

SpecSession == InitSession /\ [][NextSession]_vars

\* ------------------------------------------ a recording during a playback
\* The state after play_macro has started the first player on the committed
\* log.  The user presses keys while a recorder listens; neither play_macro
\* nor stop_macro is issued.
InitRebind ==
    /\ macro_recorder = 0
    /\ macro_player = 1
    /\ recorded_actions = 0
    /\ lists = [id \in 0..RebindCommands |-> IF id = 0 THEN SessionLog ELSE <<>>]
    /\ message_box = ""
    /\ closing = "no"
    /\ status_label = "Playback Started"
    /\ progress_bar = 0
    /\ queue = <<>>
    /\ slot_error = FALSE
    /\ presses = 0
    /\ recorder = [r \in 1..RebindCommands |-> NoRecorder]
    /\ callback = [r \in 1..RebindCommands |-> [l \in Listeners |-> NoCallback]]
    /\ clock = 0
    /\ player = [p \in {1} |->
                    IF p = 1 THEN MacroPlayer(0, SpinDefault) ELSE NoPlayer]
    /\ player_log = [p \in {1} |-> <<>>]
    /\ os_keys = {}
    /\ os_buttons = {}
    /\ pointer = <<0, 0>>
    /\ synthesized = [p \in {1} |-> <<>>]

NextRebind ==
    \/ \E cmd \in {"start_recording", "stop_recording"} :
          Hotkey(cmd, RebindCommands)
    \/ GuiStartRecording
    \/ GuiStopRecording
    \/ GuiRecordingFinished
    \/ GuiPlaybackFinished
    \/ GuiUpdateProgress
    \/ GuiUpdateStatus
    \/ \E r \in DOMAIN recorder : RecorderRunStart(r)
    \/ \E r \in DOMAIN recorder : RecorderListen(r)
    \/ \E r \in DOMAIN recorder : RecorderLoop(r)
    \/ \E r \in DOMAIN recorder : RecorderFinally(r)
    \/ \E r \in DOMAIN recorder : RecorderExit(r)
    \/ \E r \in DOMAIN recorder : \E ev \in KeyboardEvents :
          CallbackGate(r, "keyboard", ev, RebindEvents)
    \/ \E r \in DOMAIN recorder : CallbackDelta(r, "keyboard")
    \/ \E r \in DOMAIN recorder : CallbackStamp(r, "keyboard")
    \/ \E r \in DOMAIN recorder : CallbackAppend(r, "keyboard")
    \/ \E p \in DOMAIN player : PlayerRunStart(p)
    \/ \E p \in DOMAIN player : PlayerIterCheck(p)
    \/ \E p \in DOMAIN player : PlayerActionCheck(p)
    \/ \E p \in DOMAIN player : PlayerExec(p, FALSE)
    \/ \E p \in DOMAIN player : PlayerProgress(p)
    \/ \E p \in DOMAIN player : PlayerAfterLoop(p)
    \/ \E p \in DOMAIN player : PlayerFinally(p)
    \/ \E p \in DOMAIN player : PlayerExit(p)

SpecRebind == InitRebind /\ [][NextRebind]_vars

\* ------------------------------------------------------ closing the window
\* The program with the scheduling it runs under: the Qt event loop handles
\* every event it can, closeEvent goes on when wait() returns, and every engine
\* thread that can take a step takes it.  Nothing makes the user press a hotkey
\* or close the window.
InitClose == InitSessionWith(CloseCommands)

NextClose ==
    \/ \E cmd \in Commands : Hotkey(cmd, CloseCommands)
    \/ CloseWindow
    \/ GuiCloseEvent
    \/ GuiCloseRecorderWaited
    \/ GuiClosePlayerWaited
    \/ GuiStartRecording
    \/ GuiStopRecording
    \/ GuiRecordingFinished
    \/ GuiPlayMacro(MaxSpin)
    \/ GuiStopMacro
    \/ GuiPlaybackFinished
    \/ GuiUpdateProgress
    \/ GuiUpdateStatus
    \/ \E r \in DOMAIN recorder : RecorderRunStart(r)
    \/ \E r \in DOMAIN recorder : RecorderListen(r)
    \/ \E r \in DOMAIN recorder : RecorderLoop(r)
    \/ \E r \in DOMAIN recorder : RecorderFinally(r)
    \/ \E r \in DOMAIN recorder : RecorderExit(r)
    \/ \E p \in DOMAIN player : PlayerRunStart(p)
    \/ \E p \in DOMAIN player : PlayerIterCheck(p)
    \/ \E p \in DOMAIN player : PlayerActionCheck(p)
    \/ \E p \in DOMAIN player : PlayerExec(p, FALSE)
    \/ \E p \in DOMAIN player : PlayerProgress(p)
    \/ \E p \in DOMAIN player : PlayerAfterLoop(p)
    \/ \E p \in DOMAIN player : PlayerFinally(p)
    \/ \E p \in DOMAIN player : PlayerExit(p)

FairSpecClose ==
    /\ InitClose
    /\ [][NextClose]_vars
    /\ WF_vars(GuiCloseEvent)
    /\ WF_vars(GuiCloseRecorderWaited)
    /\ WF_vars(GuiClosePlayerWaited)
    /\ WF_vars(GuiStartRecording)
    /\ WF_vars(GuiStopRecording)
    /\ WF_vars(GuiRecordingFinished)
    /\ WF_vars(GuiPlayMacro(MaxSpin))
    /\ WF_vars(GuiStopMacro)
    /\ WF_vars(GuiPlaybackFinished)
    /\ WF_vars(GuiUpdateProgress)
    /\ WF_vars(GuiUpdateStatus)
    /\ \A r \in 1..CloseCommands :
          /\ WF_vars(RecorderRunStart(r))
          /\ WF_vars(RecorderListen(r))
          /\ WF_vars(RecorderLoop(r))
          /\ WF_vars(RecorderFinally(r))
          /\ WF_vars(RecorderExit(r))
    /\ \A p \in 1..CloseCommands :
          /\ WF_vars(PlayerRunStart(p))
          /\ WF_vars(PlayerIterCheck(p))
          /\ WF_vars(PlayerActionCheck(p))
          /\ WF_vars(PlayerExec(p, FALSE))
          /\ WF_vars(PlayerProgress(p))
          /\ WF_vars(PlayerAfterLoop(p))
          /\ WF_vars(PlayerFinally(p))
          /\ WF_vars(PlayerExit(p))

\* ------------------------------------------------- reading a player's log
HasEv(p, kind) == \E x \in DOMAIN player_log[p] : player_log[p][x].k = kind

ExecKinds == {"inject", "skip"}

\* The positions of the executed (or skipped) actions of iteration it.
ExecOf(p, it) ==
    { x \in DOMAIN player_log[p] :
        player_log[p][x].k \in ExecKinds /\ player_log[p][x].v = it }

\* The values of the progress_update signals emitted so far, in order.
ProgressValues(p) ==
    LET pick(e) == e.k = "progress" IN
    [x \in DOMAIN SelectSeq(player_log[p], pick) |-> SelectSeq(player_log[p], pick)[x].v]

\* finished has been emitted.
PlayerFinished(p) == player[p].pc \in {"exit", "done"}

\* The thread has ended, with or without finished.
PlayerEnded(p) == player[p].pc \in {"done", "died"}

\* No stop_playback call and no failing controller call so far.
Uninterrupted(p) ==
    ~HasEv(p, "stop_playback") /\ ~HasEv(p, "failed") /\ ~HasEv(p, "died")

FirstEv(p, kind) ==
    CHOOSE x \in DOMAIN player_log[p] :
        /\ player_log[p][x].k = kind
        /\ \A y \in 1..(x - 1) : player_log[p][y].k # kind

\* --------------------------------------------------------------------- C1
\* C1: when run ends by natural completion or by cancellation, no controller
\* call having failed, pressed_keys and pressed_buttons are empty when finished
\* is emitted and the OS holds no key or button the player pressed.
C1_HeldSetsEmptyAtFinished ==
    \A p \in DOMAIN player :
        (PlayerFinished(p) /\ ~HasEv(p, "failed")) =>
            /\ player[p].pressed_keys = {}
            /\ player[p].pressed_buttons = {}
            /\ os_keys = {}
            /\ os_buttons = {}

\* A cancelled playback that pressed key 'a', never replayed its key_up, and
\* has emitted finished.
C1_Witness ==
    /\ PlayerFinished(1)
    /\ HasEv(1, "stop_playback")
    /\ ~HasEv(1, "failed")
    /\ \E x \in DOMAIN player_log[1] :
          /\ player_log[1][x].k = "inject"
          /\ player_log[1][x].a = <<"key_down", "a", 0>>
    /\ ~\E x \in DOMAIN player_log[1] :
          /\ player_log[1][x].k = "inject"
          /\ action_type(player_log[1][x].a) = "key_up"

\* --------------------------------------------------------------------- C2
\* C2: if a controller call fails at any point of a playback, then once the
\* thread has ended it has reported 'Playback Error', executed no further
\* action, released every held key and button, cleared both sets and emitted
\* finished exactly once.
C2_FailureStillCleansUp ==
    \A p \in DOMAIN player :
        (PlayerEnded(p) /\ (HasEv(p, "failed") \/ HasEv(p, "died"))) =>
            /\ \E x \in DOMAIN player_log[p] :
                  player_log[p][x].k = "status" /\ player_log[p][x].s = "Playback Error"
            /\ HasEv(p, "failed") =>
                  \A x \in DOMAIN player_log[p] :
                      x > FirstEv(p, "failed") => player_log[p][x].k \notin ExecKinds
            /\ player[p].pressed_keys = {}
            /\ player[p].pressed_buttons = {}
            /\ os_keys = {}
            /\ os_buttons = {}
            /\ Cardinality({x \in DOMAIN player_log[p] : player_log[p][x].k = "finished"}) = 1

C6_NoProgressForCutIteration ==
    \A p \in DOMAIN player :
        \A y \in DOMAIN player_log[p] :
            player_log[p][y].k = "progress" =>
                Cardinality({x \in ExecOf(p, player_log[p][y].v) : x < y})
                    = Len(lists[player[p].actions])

\* --------------------------------------------------------------------- C9
\* C9: after stop_playback has been called on a player, the player executes at
\* most one further log action, starts no new iteration, and emits finished:
\* its thread does not end without having emitted it.
C9_StopEndsPlayback ==
    \A p \in DOMAIN player :
        HasEv(p, "stop_playback") =>
            /\ Cardinality({x \in DOMAIN player_log[p] :
                              /\ x > FirstEv(p, "stop_playback")
                              /\ player_log[p][x].k \in ExecKinds}) <= 1
            /\ \A x \in DOMAIN player_log[p] :
                  x > FirstEv(p, "stop_playback") => player_log[p][x].k # "iteration"
            /\ PlayerEnded(p) => HasEv(p, "finished")

\* --------------------------------------------------------------------- C3
\* C3: a MacroRecorder thread and a MacroPlayer thread are never running at
\* the same time.
C3_RecorderAndPlayerExclusive ==
    ~(/\ \E r \in DOMAIN recorder : RecorderIsRunning(recorder[r])
      /\ \E p \in DOMAIN player : PlayerIsRunning(player[p]))

\* --------------------------------------------------------------------- C4
\* C4: at most one MacroRecorder thread is running at any time.
C4_OneRecorderRunning ==
    Cardinality({r \in DOMAIN recorder : RecorderIsRunning(recorder[r])}) <= 1

\* --------------------------------------------------------------------- C7
\* A playback that stop_playback ended before all its iterations completed.
StoppedEarly(p) ==
    /\ HasEv(p, "stop_playback")
    /\ Cardinality({x \in DOMAIN player_log[p] : player_log[p][x].k \in ExecKinds})
          < player[p].repeat_count * Len(lists[player[p].actions])

\* C7: when a playback was ended by stop_playback before all iterations
\* completed, the status shown once the last queued notification of that
\* player (its finished signal) has been handled is 'Playback Stopped'.
C7_StoppedStatusShownLast ==
    [][\A p \in DOMAIN player :
          (/\ GuiHandles("play_finished", "")
           /\ Head(queue).src = p
           /\ queue' = Tail(queue)
           /\ StoppedEarly(p)) => status_label' = "Playback Stopped"]_vars

\* --------------------------------------------------------------------- C8
\* C8: every stop() accepted while the recorder thread is running is eventually
\* followed by on_recording_finished committing that recorder's actions.
C8_StopLeadsToCommit ==
    \A r \in 1..FairCommands :
        (recorder[r].stopped /\ RecorderIsRunning(recorder[r])) ~> recorder[r].committed

\* -------------------------------------------------------------------- C10
\* C10: the log on_recording_finished commits is the log of the recorder whose
\* finished signal it is handling.
C10_CommitsFinishedRecordersLog ==
    [][(GuiHandles("rec_finished", "") /\ queue' = Tail(queue)) =>
          lists'[recorded_actions'] = recorder[Head(queue).src].actions]_vars


\* -------------------------------------------------------------------- C11
RECURSIVE SumDeltas(_)
\* The sum of the deltas of a log.
SumDeltas(log) ==
    IF log = <<>> THEN 0 ELSE delta_time(Head(log)) + SumDeltas(Tail(log))

\* C11: every delta in a recorder's actions is non-negative, and whenever no
\* callback of the recorder is in progress the deltas add up to
\* last_action_time - start_time.
C11_DeltasSumToElapsed ==
    \A r \in DOMAIN recorder :
        /\ \A x \in DOMAIN recorder[r].actions : delta_time(recorder[r].actions[x]) >= 0
        /\ (\A l \in Listeners : callback[r][l].pc = "idle") =>
              SumDeltas(recorder[r].actions)
                  = recorder[r].last_action_time - recorder[r].start_time

\* -------------------------------------------------------------------- C12
\* The input event a log action stands for: its variant and its payload, the
\* key or button being the one its symbol maps to.
recorded_event(action) ==
    CASE action_type(action) \in KeyTypes -> <<action_type(action), get_key(action[2])>>
      [] action_type(action) = "move" -> <<"move", action[2], action[3]>>
      [] action_type(action) \in MouseTypes ->
            <<action_type(action), get_button(action[2]), action[3], action[4]>>
      [] action_type(action) = "scroll" -> <<"scroll", action[2], action[3]>>

\* The events of one pass over the log: those of its resolvable actions, in order.
PassOf(log) ==
    [x \in DOMAIN SelectSeq(log, calls_controller) |->
        recorded_event(SelectSeq(log, calls_controller)[x])]

RECURSIVE Repeated(_, _)
Repeated(events, n) == IF n = 0 THEN <<>> ELSE events \o Repeated(events, n - 1)

IsPrefix(s, t) == Len(s) <= Len(t) /\ \A x \in DOMAIN s : s[x] = t[x]

\* C12: in a playback with no stop_playback call and no failing controller
\* call, the events synthesized so far are a prefix of N passes over the log,
\* each pass being the log's resolvable actions with their variant and payload
\* in stored order, and once finished is emitted they are exactly the N passes.
C12_ReplaysLogInOrder ==
    \A p \in DOMAIN player :
        Uninterrupted(p) =>
            LET passes == Repeated(PassOf(lists[player[p].actions]), player[p].repeat_count)
            IN /\ IsPrefix(synthesized[p], passes)
               /\ PlayerFinished(p) => synthesized[p] = passes

\* -------------------------------------------------------------------- C13
\* The action names a key or button that get_key / get_button does not resolve.
Unresolved(action) ==
    \/ action_type(action) \in KeyTypes /\ get_key(action[2]) = None
    \/ action_type(action) \in MouseTypes /\ get_button(action[2]) = None

HasStatus(p, s) ==
    \E x \in DOMAIN player_log[p] : player_log[p][x].k = "status" /\ player_log[p][x].s = s

NoRecorderRunning == \A r \in DOMAIN recorder : ~RecorderIsRunning(recorder[r])

NoPlayerRunning == \A p \in DOMAIN player : ~PlayerIsRunning(player[p])

\* C14: when the GUI handles stop_recording while no recorder is running, or
\* stop_macro while no player is running, it shows the warning and changes
\* nothing else: macro_recorder, macro_player, recorded_actions and its list,
\* every recorder and player (their recording and is_playing flags included)
\* and the status are as before.
C14_StopWhileIdleChangesNothing ==
    [][(/\ \/ GuiHandles("cmd", "stop_recording") /\ NoRecorderRunning
           \/ GuiHandles("cmd", "stop_macro") /\ NoPlayerRunning
        /\ queue' = Tail(queue)) =>
            /\ message_box' = (IF Head(queue).s = "stop_recording"
                               THEN "No recording is in progress."
                               ELSE "No playback is in progress.")
            /\ UNCHANGED <<macro_recorder, macro_player, recorded_actions, lists,
                           status_label, progress_bar, slot_error, recorder, callback,
                           player, player_log, os_keys, os_buttons>>
      ]_vars

\* stop_recording was rejected after a recording had been committed: the
\* warning is up and the committed log is still there.
C14_Witness ==
    /\ message_box = "No recording is in progress."
    /\ lists[recorded_actions] # <<>>
    /\ NoRecorderRunning
    /\ macro_recorder = 0

\* -------------------------------------------------------------------- C15
\* C15: when the GUI handles play_macro while recorded_actions is empty it
\* shows 'No recorded actions to play.' and creates no player, and the log of
\* every player that exists is non-empty.
C15_NoPlayerForEmptyLog ==
    [][/\ (/\ GuiHandles("cmd", "play_macro")
           /\ lists[recorded_actions] = <<>>
           /\ queue' = Tail(queue)) =>
              /\ message_box' = "No recorded actions to play."
              /\ UNCHANGED <<macro_player, player, player_log, status_label, progress_bar>>
       /\ \A p \in DOMAIN player :
              player'[p].pc # "none" => lists'[player'[p].actions] # <<>>
      ]_vars

\* A recording that captured nothing was committed over the earlier log, and
\* play_macro was then rejected: no player exists.
C15_Witness ==
    /\ message_box = "No recorded actions to play."
    /\ recorded_actions # 0
    /\ lists[recorded_actions] = <<>>
    /\ \A p \in DOMAIN player : player[p].pc = "none"

\* -------------------------------------------------------------------- C16
\* C16: a recorder's actions do not grow before its run has set up the session
\* and never grow again once stop() has been called on it.
C16_NoAppendAfterStop ==
    [][\A r \in DOMAIN recorder :
          (recorder[r].stopped \/ recorder[r].pc = "start") =>
              Len(recorder'[r].actions) <= Len(recorder[r].actions)]_vars

\* -------------------------------------------------------------------- C17
\* C17: at most one MacroPlayer thread is running at any time.
C17_OnePlayerRunning ==
    Cardinality({p \in DOMAIN player : PlayerIsRunning(player[p])}) <= 1

\* -------------------------------------------------------------------- C18
\* C18: from its construction until it has emitted finished, a player refers
\* to the same list and no step changes that list's content, a commit by
\* on_recording_finished included.
C18_PlayersLogUntouched ==
    [][\A p \in DOMAIN player :
          (player[p].pc # "none" /\ ~PlayerFinished(p)) =>
              /\ player'[p].actions = player[p].actions
              /\ lists'[player[p].actions] = lists[player[p].actions]]_vars

\* A recording that captured a key press was committed while a player was
\* inside its loop: recorded_actions now refers to another list with another
\* content than the one the player iterates over.
C18_Witness ==
    \E p \in DOMAIN player :
        /\ player[p].pc = "exec"
        /\ recorded_actions # player[p].actions
        /\ lists[recorded_actions] # <<>>
        /\ lists[recorded_actions] # lists[player[p].actions]
        /\ lists[player[p].actions] = SessionLog

\* -------------------------------------------------------------------- C19
\* C19: macro_player refers to every MacroPlayer thread that is running and
\* macro_recorder refers to every MacroRecorder thread that is running.
C19_RunningEnginesReferenced ==
    /\ \A p \in DOMAIN player : PlayerIsRunning(player[p]) => macro_player = p
    /\ \A r \in DOMAIN recorder : RecorderIsRunning(recorder[r]) => macro_recorder = r

\* -------------------------------------------------------------------- C20
\* C20: once the GUI thread has a close event to handle, closeEvent is
\* eventually run to its end with no MacroRecorder and no MacroPlayer thread
\* left running.
C20_CloseEventTerminates ==
    (closing = "requested") ~>
        (closing = "closed" /\ NoRecorderRunning /\ NoPlayerRunning)

====
